---- MODULE Spec2Model ----
(***************************************************************************)
(* scrapy-webdriver: the spider middleware (request router), the download  *)
(* handler (dispatcher, one worker thread per webdriver download, SIGALRM  *)
(* hang timer) and the WebdriverManager they share (lock, wait queue,      *)
(* lazily created webdriver handle).                                       *)
(*                                                                         *)
(* middlewares.py and download.py are translated from their source.        *)
(* manager.py and http.py are not part of the source tree at hand: the     *)
(* manager operations (Acquire, Release, ReleaseAny, AcquireNext,          *)
(* Webdriver) and the request classes follow the written specification     *)
(* (sections 3, 4.1, 4.2).                                                 *)
(***************************************************************************)
EXTENDS Integers, Sequences, FiniteSets, TLC

VARIABLES
    manager,       \* WebdriverManager state shared by router and dispatcher
    hang_timeout,  \* WebdriverDownloadHandler._hang_timeout (0: not configured)
    alarm,         \* TRUE while a signal.alarm countdown is pending
    handler,       \* the request the bound alarm_handler closure refers to
    inflight,      \* requests whose worker thread is inside the blocking get
    scheduler,     \* requests accepted by the crawl scheduler, not yet downloaded
    seen,          \* identities recorded by duplicate suppression
    responses,     \* responses waiting for the spider callback
    started,       \* process_start_requests has run
    budget,        \* how many more items the spider may still produce
    log,           \* manager calls made by the most recent step (history)
    out,           \* sequence returned by the most recent router call (history)
    input          \* sequence passed to the most recent router call (history)

vars == <<manager, hang_timeout, alarm, handler, inflight, scheduler, seen, responses,
          started, budget, log, out, input>>

(***************************************************************************)
(* Bounds of the model.                                                    *)
(***************************************************************************)
\* The spider produces at most MaxItems items and requests in one crawl,
\* start requests and callback results together.
MaxItems == 3

(***************************************************************************)
(* Requests, items and responses.                                          *)
(***************************************************************************)
Urls == {"a", "b", "c"}
NoId == ""

Req(u, k, d) == [url |-> u, kind |-> k, data |-> d, dont_filter |-> FALSE]

\* WebdriverRequest.WAITING: the marker acquire returns for "queued".
WAITING == [url |-> NoId, kind |-> "WAITING", data |-> 0, dont_filter |-> FALSE]
\* A scraped item (not a request).
Item == [url |-> NoId, kind |-> "item", data |-> 0, dont_filter |-> FALSE]

IsWebdriverRequest(r) == r.kind \in {"simple", "action"}
IsWebdriverActionRequest(r) == r.kind = "action"
IsRequest(r) == r.kind \in {"plain", "simple", "action"}

\* What the spider's start_requests may hold.
StartPool ==
    {Req(u, "simple", 0) : u \in Urls}
        \cup {Req("a", "simple", 1), Req("c", "action", 0), Req("p", "plain", 0)}

\* What a spider callback may yield (one entry per callback).
Results == {<<>>, <<Req("b", "simple", 0)>>, <<Req("c", "action", 0)>>, <<Item>>}

RECURSIVE SeqsUpTo(_, _)
SeqsUpTo(S, n) ==
    IF n = 0 THEN {<<>>}
    ELSE LET shorter == SeqsUpTo(S, n - 1)
         IN  shorter \cup {Append(s, x) : s \in {t \in shorter : Len(t) = n - 1}, x \in S}

Range(s) == {s[i] : i \in 1..Len(s)}

(***************************************************************************)
(* WebdriverManager (spec sections 3, 4.1, 4.2): lock, wait queue, handle. *)
(***************************************************************************)
\* Placeholder of a wait-queue slot that stores no request.
NoRequest == [url |-> NoId, kind |-> "none", data |-> 0, dont_filter |-> FALSE]

\* The manager after construction: lock FREE, nothing queued, no webdriver.
NewManager ==
    [held        |-> FALSE,
     held_by     |-> NoId,
     _wait_order |-> <<>>,
     _wait_queue |-> [u \in Urls |-> NoRequest],
     _webdriver  |-> FALSE]

\* One manager call as recorded in the history variable log. The raise of
\* IgnoreRequest is recorded as well (op "reject"), with the manager as it is
\* at the raise.
Call(by, op, req, id, ret, pre, post) ==
    [by |-> by, op |-> op, req |-> req, id |-> id, ret |-> ret,
     pre |-> pre, post |-> post]

\* acquire admitting whatever the lock's state.
AcquireAdmitsAlways(m, request) ==
    [m   |-> [m EXCEPT !.held = TRUE, !.held_by = request.url],
     ret |-> request]

\* acquire appending the identity to the order even when it is queued.
AcquireAppendsAlways(m, request) ==
    IF ~m.held
    THEN [m   |-> [m EXCEPT !.held = TRUE, !.held_by = request.url],
          ret |-> request]
    ELSE [m   |-> [m EXCEPT !._wait_order = Append(@, request.url),
                            !._wait_queue[request.url] = request],
          ret |-> WAITING]

\* acquire(request): the lock is free -> take it and return the request;
\* the lock is held -> store the request under its identity (appending the
\* identity to the order only if it is not queued yet) and return WAITING.
Acquire(m, request) ==
    IF ~m.held
    THEN [m   |-> [m EXCEPT !.held = TRUE, !.held_by = request.url],
          ret |-> request]
    ELSE [m   |-> [m EXCEPT !._wait_order =
                                IF request.url \in Range(@) THEN @
                                ELSE Append(@, request.url),
                            !._wait_queue[request.url] = request],
          ret |-> WAITING]

\* release(identity): clears the lock only if identity holds it.
Release(m, identity) ==
    IF m.held /\ m.held_by = identity
    THEN [m EXCEPT !.held = FALSE, !.held_by = NoId]
    ELSE m

\* release() as the dispatcher calls it, naming no identity: the lock is
\* cleared whoever holds it (the lock part of force_release_and_reset).
ReleaseAny(m) == [m EXCEPT !.held = FALSE, !.held_by = NoId]

\* acquire_next(): pops the oldest identity and calls acquire on its request;
\* WAITING, and nothing changed, when nothing is queued.
AcquireNext(m) ==
    IF m._wait_order = <<>>
    THEN [m |-> m, ret |-> WAITING]
    ELSE LET u == Head(m._wait_order)
             popped == [m EXCEPT !._wait_order = Tail(@),
                                 !._wait_queue[u] = NoRequest]
         IN  Acquire(popped, m._wait_queue[u])

\* The webdriver property: the first access (and the first one after the
\* handle was set to None) constructs the session; constructing may fail,
\* and then the access raises and the handle stays None.
Webdriver(m, ok) ==
    IF m._webdriver
    THEN [m |-> m, raised |-> FALSE]
    ELSE IF ok
         THEN [m |-> [m EXCEPT !._webdriver = TRUE], raised |-> FALSE]
         ELSE [m |-> m, raised |-> TRUE]

(***************************************************************************)
(* WebdriverSpiderMiddleware (middlewares.py).                             *)
(***************************************************************************)
\* _process_requests as a fold over the items: st carries the manager, the
\* items yielded so far, the calls made, and whether IgnoreRequest was raised
\* (which ends the generator: nothing after the raising item is yielded).
RECURSIVE ProcessFrom(_, _, _, _)
ProcessFrom(items, i, start, st) ==
    IF i > Len(items) \/ st.raised THEN st
    ELSE LET request == items[i] IN
         IF IsWebdriverRequest(request)
         THEN IF start /\ IsWebdriverActionRequest(request)
              THEN [st EXCEPT !.raised = TRUE,
                              !.log = Append(@, Call("router", "reject", request,
                                                     request.url, NoRequest,
                                                     st.m, st.m))]
              ELSE LET a == Acquire(st.m, request)
                       c == Call("router", "acquire", request, request.url,
                                 a.ret, st.m, a.m)
                   IN  IF a.ret = WAITING
                       THEN ProcessFrom(items, i + 1, start,
                                [st EXCEPT !.m = a.m, !.log = Append(@, c)])
                       ELSE ProcessFrom(items, i + 1, start,
                                [st EXCEPT !.m = a.m, !.log = Append(@, c),
                                           !.out = Append(@, a.ret)])
         ELSE ProcessFrom(items, i + 1, start, [st EXCEPT !.out = Append(@, request)])

\* _process_requests without the continue: the marker acquire returned is
\* yielded in place of every request that was queued.
_process_requests_no_continue(m, items_or_requests, start) ==
    LET p == ProcessFrom(items_or_requests, 1, start,
                         [m |-> m, out |-> <<>>, log |-> <<>>, raised |-> FALSE])
        nth(i) == Len(SelectSeq(SubSeq(items_or_requests, 1, i), IsWebdriverRequest))
    IN  IF p.raised THEN p
        ELSE [p EXCEPT !.out = [i \in 1..Len(items_or_requests) |->
                                   IF IsWebdriverRequest(items_or_requests[i])
                                   THEN p.log[nth(i)].ret
                                   ELSE items_or_requests[i]]]

\* _process_requests yielding each request itself, whatever acquire returned.
_process_requests_result_unused(m, items_or_requests, start) ==
    LET p == ProcessFrom(items_or_requests, 1, start,
                         [m |-> m, out |-> <<>>, log |-> <<>>, raised |-> FALSE])
    IN  IF p.raised THEN p ELSE [p EXCEPT !.out = items_or_requests]

\* _process_requests without the test of start: an action request among the
\* start requests goes to acquire like any other.
_process_requests_start_unchecked(m, items_or_requests, start) ==
    ProcessFrom(items_or_requests, 1, FALSE,
                [m |-> m, out |-> <<>>, log |-> <<>>, raised |-> FALSE])

\* middlewares.py:49-59.
_process_requests(m, items_or_requests, start) ==
    ProcessFrom(items_or_requests, 1, start,
                [m |-> m, out |-> <<>>, log |-> <<>>, raised |-> FALSE])

\* request.replace(dont_filter=True)
ReplaceDontFilter(request) == [request EXCEPT !.dont_filter = TRUE]

\* process_spider_output: the admission filter over the result, then, for a
\* response to a WebdriverRequest, release(url), acquire_next() and the
\* re-emission of the promoted request.
process_spider_output(m, response, result) ==
    LET p == _process_requests(m, result, FALSE) IN
    IF IsWebdriverRequest(response.request)
    THEN LET rel == Release(p.m, response.request.url)
             nxt == AcquireNext(rel)
             c1  == Call("router", "release", NoRequest, response.request.url,
                         NoRequest, p.m, rel)
             c2  == Call("router", "acquire_next", NoRequest, NoId,
                         nxt.ret, rel, nxt.m)
         IN  [m   |-> nxt.m,
              out |-> IF nxt.ret # WAITING
                      THEN Append(p.out, ReplaceDontFilter(nxt.ret))
                      ELSE p.out,
              log |-> p.log \o <<c1, c2>>]
    ELSE [m |-> p.m, out |-> p.out, log |-> p.log]

\* process_spider_exception without the test of the response's request.
process_spider_exception_unchecked(m, response) ==
    LET rel == Release(m, response.request.url)
        nxt == AcquireNext(rel)
        c1  == Call("router", "release", NoRequest, response.request.url,
                    NoRequest, m, rel)
        c2  == Call("router", "acquire_next", NoRequest, NoId,
                    nxt.ret, rel, nxt.m)
    IN  [m |-> nxt.m, out |-> <<nxt.ret>>, log |-> <<c1, c2>>]

\* process_spider_exception: release(url), acquire_next(), return
\* [next_request]; None (nothing returned) for any other response.
process_spider_exception(m, response) ==
    IF IsWebdriverRequest(response.request)
    THEN LET rel == Release(m, response.request.url)
             nxt == AcquireNext(rel)
             c1  == Call("router", "release", NoRequest, response.request.url,
                         NoRequest, m, rel)
             c2  == Call("router", "acquire_next", NoRequest, NoId,
                         nxt.ret, rel, nxt.m)
         IN  [m |-> nxt.m, out |-> <<nxt.ret>>, log |-> <<c1, c2>>]
    ELSE [m |-> m, out |-> <<>>, log |-> <<>>]

(***************************************************************************)
(* The crawl pipeline around the middleware: scheduler with duplicate      *)
(* suppression, downloader, spider callbacks.                              *)
(***************************************************************************)
\* The scheduler takes the requests of a router result in order: a request
\* is dropped when its identity was seen and it does not carry dont_filter;
\* items and the None marker are not requests and never reach the scheduler.
RECURSIVE EnqueueFrom(_, _, _)
EnqueueFrom(items, i, st) ==
    IF i > Len(items) THEN st
    ELSE LET r == items[i] IN
         IF ~IsRequest(r) THEN EnqueueFrom(items, i + 1, st)
         ELSE IF r.dont_filter
              THEN EnqueueFrom(items, i + 1,
                       [st EXCEPT !.scheduler = @ \cup {r}])
              ELSE IF r.url \in st.seen
                   THEN EnqueueFrom(items, i + 1, st)
                   ELSE EnqueueFrom(items, i + 1,
                            [scheduler |-> st.scheduler \cup {r},
                             seen |-> st.seen \cup {r.url}])

Enqueue(items, sched, sn) == EnqueueFrom(items, 1, [scheduler |-> sched, seen |-> sn])

Response(request, exception) == [request |-> request, exception |-> exception]

(***************************************************************************)
(* WebdriverDownloadHandler (download.py).                                 *)
(***************************************************************************)
\* settings.get('WEBDRIVER_BROWSER') is not None: the subsystem is on.
_enabled == TRUE
\* The values of WEBDRIVER_HANG_TIMEOUT considered: absent (0) or set.
HangTimeouts == {0, 1}

TypeOK ==
    /\ manager.held \in BOOLEAN
    /\ manager.held_by \in Urls \cup {NoId}
    /\ Range(manager._wait_order) \subseteq Urls
    /\ hang_timeout \in HangTimeouts
    /\ alarm \in BOOLEAN
    /\ \A r \in inflight : IsWebdriverRequest(r)
    /\ \A r \in scheduler : IsRequest(r)
    /\ seen \subseteq Urls \cup {"p"}
    /\ started \in BOOLEAN
    /\ budget \in 0..MaxItems

Init ==
    /\ manager = NewManager
    /\ hang_timeout \in HangTimeouts
    /\ alarm = FALSE
    /\ handler = NoRequest
    /\ inflight = {}
    /\ scheduler = {}
    /\ seen = {}
    /\ responses = {}
    /\ started = FALSE
    /\ budget = MaxItems
    /\ log = <<>>
    /\ out = <<>>
    /\ input = <<>>

\* middlewares.py:20-29, the engine consuming the returned generator.
ProcessStartRequests ==
    /\ ~started
    /\ \E start_requests \in SeqsUpTo(StartPool, MaxItems) :
         LET p == _process_requests(manager, start_requests, TRUE)
             e == Enqueue(p.out, scheduler, seen)
         IN  /\ manager' = p.m
             /\ log' = p.log
             /\ out' = p.out
             /\ input' = start_requests
             /\ scheduler' = e.scheduler
             /\ seen' = e.seen
             /\ budget' = budget - Len(start_requests)
    /\ started' = TRUE
    /\ UNCHANGED <<hang_timeout, alarm, handler, inflight, responses>>

\* The spider callback returned result for response; the engine passes it
\* through process_spider_output and schedules what comes out.
ProcessSpiderOutput ==
    \E response \in responses, result \in Results :
        /\ started
        /\ Len(result) <= budget
        /\ LET p == process_spider_output(manager, response, result)
               e == Enqueue(p.out, scheduler, seen)
           IN  /\ manager' = p.m
               /\ log' = p.log
               /\ out' = p.out
               /\ input' = result
               /\ scheduler' = e.scheduler
               /\ seen' = e.seen
        /\ responses' = responses \ {response}
        /\ budget' = budget - Len(result)
        /\ UNCHANGED <<hang_timeout, alarm, handler, inflight, started>>

\* The spider callback raised; the engine calls process_spider_exception and
\* schedules what it returns.
ProcessSpiderException ==
    \E response \in responses :
        /\ started
        /\ LET p == process_spider_exception(manager, response)
               e == Enqueue(p.out, scheduler, seen)
           IN  /\ manager' = p.m
               /\ log' = p.log
               /\ out' = p.out
               /\ input' = <<>>
               /\ scheduler' = e.scheduler
               /\ seen' = e.seen
        /\ responses' = responses \ {response}
        /\ UNCHANGED <<hang_timeout, alarm, handler, inflight, started, budget>>

\* How _download_request ends (download.py:85-119) once the get has returned
\* (raises = FALSE) or raised: signal.alarm(0); self._manager.webdriver is
\* read once more (for the response, or to recreate the session) and raises
\* itself if it has to construct a session and cannot; finally release().
\* No statement of it blocks, so it is one step.
Cleanup(m, request, raises, ok) ==
    LET d == Webdriver(m, ok)
        r == ReleaseAny(d.m)
    IN  [m      |-> r,
         raised |-> d.raised,
         result |-> IF d.raised THEN <<>>
                    ELSE <<Response(request, raises)>>,
         log    |-> <<Call("dispatcher", "release", request, NoId, NoRequest,
                           d.m, r)>>]

\* download_request (download.py:31-67) hands a WebdriverRequest to a worker
\* thread, which runs _download_request (download.py:72-81) up to the
\* blocking call: signal.alarm(hang_timeout); self._manager.acquire(request),
\* whose result is not used; self._manager.webdriver read for .get,
\* constructing the session when there is none. A failing construction
\* raises inside the try, and the thread goes through its cleanup at once.
DownloadWebdriver ==
    \E request \in scheduler, ok \in BOOLEAN, ok2 \in BOOLEAN :
        /\ _enabled /\ IsWebdriverRequest(request)
        /\ ~IsWebdriverActionRequest(request)
        /\ request \notin inflight
        /\ scheduler' = scheduler \ {request}
        /\ handler' = IF hang_timeout # 0 THEN request ELSE handler
        /\ LET a == Acquire(manager, request)
               c == Call("dispatcher", "acquire", request, request.url, a.ret,
                         manager, a.m)
               d == Webdriver(a.m, ok)
               f == Cleanup(d.m, request, TRUE, ok2)
           IN  IF d.raised
               THEN /\ manager' = f.m
                    /\ alarm' = IF hang_timeout # 0 THEN FALSE ELSE alarm
                    /\ log' = <<c>> \o f.log
                    /\ responses' = responses \cup Range(f.result)
                    /\ UNCHANGED inflight
               ELSE /\ ok2
                    /\ manager' = d.m
                    /\ alarm' = IF hang_timeout # 0 THEN TRUE ELSE alarm
                    /\ log' = <<c>>
                    /\ inflight' = inflight \cup {request}
                    /\ UNCHANGED responses
        /\ out' = <<>>
        /\ input' = <<>>
        /\ UNCHANGED <<hang_timeout, seen, started, budget>>

\* download.py:60-61: an action request raises NotImplementedError; the
\* download fails and no response reaches the spider.
DownloadAction ==
    \E request \in scheduler :
        /\ _enabled /\ IsWebdriverActionRequest(request)
        /\ scheduler' = scheduler \ {request}
        /\ log' = <<>>
        /\ out' = <<>>
        /\ input' = <<>>
        /\ handler' = IF hang_timeout # 0 THEN request ELSE handler
        /\ UNCHANGED <<manager, hang_timeout, alarm, inflight, seen, responses,
                       started, budget>>

\* download.py:65-67: everything else goes to the stock download handler.
DownloadFallback ==
    \E request \in scheduler :
        /\ ~(_enabled /\ IsWebdriverRequest(request))
        /\ scheduler' = scheduler \ {request}
        /\ responses' = responses \cup {Response(request, FALSE)}
        /\ log' = <<>>
        /\ out' = <<>>
        /\ input' = <<>>
        /\ UNCHANGED <<manager, hang_timeout, alarm, handler, inflight, seen,
                       started, budget>>

\* The blocking get for request returns or raises (download.py:81), and the
\* thread runs its cleanup and delivers its result.
WorkerGetReturns ==
    \E request \in inflight, raises \in BOOLEAN, ok \in BOOLEAN :
      /\ LET f == Cleanup(manager, request, raises, ok)
         IN  /\ manager' = f.m
             /\ log' = f.log
             /\ responses' = responses \cup Range(f.result)
      /\ alarm' = IF hang_timeout # 0 THEN FALSE ELSE alarm
      /\ inflight' = inflight \ {request}
      /\ out' = <<>>
      /\ input' = <<>>
      /\ UNCHANGED <<hang_timeout, handler, scheduler, seen, started, budget>>

\* The alarm handler without its release() call.
AlarmHandlerKeepsLock ==
    /\ alarm
    /\ alarm' = FALSE
    /\ \E ok \in BOOLEAN :
         LET d == Webdriver(manager, ok)
         IN  /\ manager' = IF d.raised THEN manager
                           ELSE [d.m EXCEPT !._webdriver = FALSE]
             /\ log' = <<>>
    /\ out' = <<>>
    /\ input' = <<>>
    /\ UNCHANGED <<hang_timeout, handler, inflight, scheduler, seen, responses,
                   started, budget>>

\* The alarm handler promoting the next waiter after its release().
AlarmHandlerPromotes ==
    /\ alarm
    /\ alarm' = FALSE
    /\ \E ok \in BOOLEAN :
         LET d == Webdriver(manager, ok)
             reset == [d.m EXCEPT !._webdriver = FALSE]
             nxt == AcquireNext(ReleaseAny(reset))
         IN  IF d.raised
             THEN /\ manager' = manager
                  /\ log' = <<>>
             ELSE /\ manager' = nxt.m
                  /\ log' = <<Call("alarm", "release", handler, NoId, NoRequest,
                                   reset, ReleaseAny(reset))>>
    /\ out' = <<>>
    /\ input' = <<>>
    /\ UNCHANGED <<hang_timeout, handler, inflight, scheduler, seen, responses,
                   started, budget>>

\* download.py:38-55: SIGALRM arrives. The handler reads the webdriver
\* property to signal its process, sets _webdriver to None, and releases.
\* If the property has to construct a session and that fails, the handler
\* raises at its first statement.
AlarmHandler ==
    /\ alarm
    /\ alarm' = FALSE
    /\ \E ok \in BOOLEAN :
         LET d == Webdriver(manager, ok)
             reset == [d.m EXCEPT !._webdriver = FALSE]
         IN  IF d.raised
             THEN /\ manager' = manager
                  /\ log' = <<>>
             ELSE /\ manager' = ReleaseAny(reset)
                  /\ log' = <<Call("alarm", "release", handler, NoId, NoRequest,
                                   reset, ReleaseAny(reset))>>
    /\ out' = <<>>
    /\ input' = <<>>
    /\ UNCHANGED <<hang_timeout, handler, inflight, scheduler, seen, responses,
                   started, budget>>

Next ==
    \/ ProcessStartRequests
    \/ ProcessSpiderOutput
    \/ ProcessSpiderException
    \/ DownloadWebdriver
    \/ DownloadAction
    \/ DownloadFallback
    \/ WorkerGetReturns
    \/ AlarmHandler

Spec == Init /\ [][Next]_vars

(***************************************************************************)
(* The crawl of two webdriver requests in which nothing fails: the spider  *)
(* starts with two requests of different identities, every session        *)
(* construction and every get succeeds, callbacks yield nothing and raise  *)
(* nothing, and no get outlasts the hang timeout.                          *)
(***************************************************************************)
TwoStart ==
    /\ ProcessStartRequests
    /\ Len(log') = 2 /\ budget' = budget - 2
    /\ log'[1].op = "acquire" /\ log'[2].op = "acquire"
    /\ log'[1].id # log'[2].id

TwoDownload == DownloadWebdriver /\ inflight' # inflight

TwoGetReturns ==
    /\ WorkerGetReturns
    /\ \E r \in responses' : r \notin responses /\ ~r.exception

TwoSpiderOutput == ProcessSpiderOutput /\ budget' = budget

NextTwo == TwoStart \/ TwoDownload \/ TwoGetReturns \/ TwoSpiderOutput

SpecTwo == Init /\ [][NextTwo]_vars

(***************************************************************************)
(* Properties.                                                             *)
(***************************************************************************)
Calls == {log[i] : i \in DOMAIN log}
Admits(c) == c.op \in {"acquire", "acquire_next"} /\ c.ret # WAITING
Free(m) == ~m.held /\ m.held_by = NoId
IndexOf(order, u) == CHOOSE i \in DOMAIN order : order[i] = u

\* C1: the lock is FREE or HELD by exactly one identity, and every request
\* that acquire or acquire_next returns as admitted was admitted from a FREE
\* lock and holds the lock afterwards; no call admits while the lock is HELD.
C1_OneHolder ==
    /\ manager.held <=> manager.held_by \in Urls
    /\ ~manager.held <=> manager.held_by = NoId
    /\ \A c \in Calls :
         /\ Admits(c) => Free(c.pre) /\ c.post.held /\ c.post.held_by = c.ret.url
         /\ (c.op \in {"acquire", "acquire_next"} /\ c.pre.held) =>
                c.ret = WAITING /\ c.post.held_by = c.pre.held_by
    /\ \A i \in DOMAIN out :
         IsWebdriverRequest(out[i]) =>
             \E c \in Calls : Admits(c) /\ c.ret.url = out[i].url
                               /\ c.ret.data = out[i].data

\* A request is turned away, and a waiter is not promoted, while another
\* identity holds the lock.
C1_Witness ==
    \E c \in Calls :
        /\ c.op = "acquire_next" /\ c.pre.held /\ c.pre._wait_order # <<>>
        /\ c.ret = WAITING /\ manager.held_by = c.pre.held_by

\* C2: while a worker is inside the blocking get for r the lock is held by
\* r's identity, no two blocking gets are in flight together, and a worker
\* whose acquire(r) returned WAITING does not go on to the get.
C2_OnlyHolderTouches ==
    /\ \A r \in inflight : manager.held /\ manager.held_by = r.url
    /\ Cardinality(inflight) <= 1
    /\ \A c \in Calls :
         (c.by = "dispatcher" /\ c.op = "acquire" /\ c.ret = WAITING)
             => c.req \notin inflight

\* The helpers of C3: what a call admits, and the order of those who wait.
AdmitsOldest ==
    \A c \in Calls :
        (Admits(c) /\ c.ret.url \in Range(c.pre._wait_order))
            => c.ret.url = Head(c.pre._wait_order)

OrderKept ==
    LET old == manager._wait_order
        new == manager'._wait_order
    IN  \A A \in Range(old) \cap Range(new), B \in Range(old) \cap Range(new) :
            IndexOf(old, A) < IndexOf(old, B) => IndexOf(new, A) < IndexOf(new, B)

\* C3: waiters are admitted in the order of their first queueing: an
\* admitted identity that was waiting was the oldest waiter, and two
\* identities that both stay queued keep their relative order.
C3_StrictFifo == []AdmitsOldest /\ [][OrderKept]_vars

\* One router call made only of acquires of distinct identities, from FREE.
DistinctAcquiresFromFree ==
    /\ log # <<>>
    /\ \A i \in DOMAIN log : log[i].by = "router" /\ log[i].op = "acquire"
    /\ \A i \in DOMAIN log, j \in DOMAIN log : i # j => log[i].id # log[j].id
    /\ Free(log[1].pre) /\ log[1].pre._wait_order = <<>>

\* C4: from a FREE lock and an empty queue, acquire calls r1..rn with
\* pairwise distinct identities: the first returns r1 and makes r1 the
\* holder, every later one returns WAITING, leaves the holder alone and
\* leaves the queue equal to [r2..ri]; the router forwards r1 only.
C4_FirstAdmittedRestQueued ==
    DistinctAcquiresFromFree =>
        /\ log[1].ret = log[1].req
        /\ log[1].post.held /\ log[1].post.held_by = log[1].req.url
        /\ \A i \in 2..Len(log) :
             /\ log[i].ret = WAITING
             /\ log[i].post.held /\ log[i].post.held_by = log[1].req.url
             /\ log[i].post._wait_order = [j \in 1..(i - 1) |-> log[j + 1].id]
             /\ log[i].post._wait_queue[log[i].id] = log[i].req
        /\ SelectSeq(out, IsWebdriverRequest) = <<log[1].req>>
        /\ \A i \in DOMAIN out : out[i] # WAITING

\* Three distinct identities acquired in a row: one holder, two waiters.
C4_Witness ==
    /\ DistinctAcquiresFromFree
    /\ Len(log) = 3
    /\ Len(manager._wait_order) = 2
    /\ manager.held_by = log[1].id

\* C5: an identity is queued at most once, and acquire(A') while the lock is
\* held and A is queued returns WAITING, keeps the order of identities and
\* replaces only the request stored for A.
C5_RequeueKeepsPlace ==
    /\ \A i \in DOMAIN manager._wait_order, j \in DOMAIN manager._wait_order :
         i # j => manager._wait_order[i] # manager._wait_order[j]
    /\ \A c \in Calls :
         (c.op = "acquire" /\ c.pre.held /\ c.id \in Range(c.pre._wait_order))
             => /\ c.ret = WAITING
                /\ c.post._wait_order = c.pre._wait_order
                /\ c.post._wait_queue = [c.pre._wait_queue EXCEPT ![c.id] = c.req]
                /\ c.post.held /\ c.post.held_by = c.pre.held_by
                /\ c.post._webdriver = c.pre._webdriver

\* acquire(A') for a queued A that stores something else, with another
\* identity queued as well.
C5_Witness ==
    \E c \in Calls :
        /\ c.op = "acquire" /\ c.pre.held
        /\ c.id \in Range(c.pre._wait_order)
        /\ Len(c.pre._wait_order) >= 2
        /\ c.id = Head(c.pre._wait_order)
        /\ c.pre._wait_queue[c.id] # c.req

\* The identity a release is made for.
ReleasedFor(c) == IF c.by = "router" THEN c.id ELSE c.req.url

\* C6: at every call site a release made for an identity that does not hold
\* the lock (lock FREE, or HELD by another identity) changes nothing. The
\* router names response.request.url; the worker releases for the request
\* it downloads, the alarm handler for the request its closure was bound to.
C6_ReleaseHolderChecked ==
    \A c \in Calls :
        (c.op = "release" /\ (~c.pre.held \/ c.pre.held_by # ReleasedFor(c)))
            => c.post = c.pre

\* C7: the cleanup of a download (the worker's finally, and the router's
\* release for its response) never frees a lock that another request holds.
C7_NoDoubleRelease ==
    \A c \in Calls :
        (/\ c.op = "release" /\ c.by \in {"dispatcher", "router"}
         /\ c.pre.held /\ c.pre.held_by # ReleasedFor(c))
            => c.post.held /\ c.post.held_by = c.pre.held_by

\* The step in which SIGALRM is handled.
AlarmFires == alarm /\ ~alarm' /\ inflight' = inflight /\ scheduler' = scheduler

C9_PromotedIsScheduled ==
    \A c \in Calls :
        (c.by = "router" /\ c.op = "acquire_next" /\ Admits(c))
            => \E q \in scheduler : q.url = c.ret.url /\ q.data = c.ret.data

\* C10: two webdriver requests R1, R2, R2 submitted while R1 holds the lock
\* and nothing failing: the only request acquire_next ever promotes is the
\* waiting R2 (R1, already crawled, is not re-emitted), and once the output
\* of R2's response has been processed the lock is FREE, nothing is queued
\* and nothing was re-emitted. R2 is the request whose identity the
\* duplicate filter never recorded: it was queued at the start and entered
\* the pipeline only as a re-emission that bypasses the filter.
C10_TwoRequestsComplete ==
    /\ \A c \in Calls :
         (c.op = "acquire_next" /\ Admits(c)) => c.ret.url \notin seen
    /\ \A c \in Calls :
         (c.by = "router" /\ c.op = "release" /\ c.id \notin seen)
             => Free(manager) /\ manager._wait_order = <<>> /\ out = <<>>

\* C11: a request passed to acquire is either admitted or stored in the wait
\* queue, never both and never neither; the identity that holds the lock is
\* not in the wait queue; and the dispatcher's own acquire of the request it
\* downloads does not queue that request for a second execution.
C11_ConsumedOnce ==
    /\ manager.held => manager.held_by \notin Range(manager._wait_order)
    /\ \A c \in Calls :
         c.op = "acquire" =>
             /\ Admits(c) => c.id \notin Range(c.post._wait_order)
             /\ c.ret = WAITING =>
                    /\ c.id \in Range(c.post._wait_order)
                    /\ c.post._wait_queue[c.id] = c.req
             /\ c.by = "dispatcher" => c.post._wait_order = c.pre._wait_order

\* C12: in process_start_requests an action request never reaches acquire;
\* it is rejected with IgnoreRequest, and the lock and the wait queue after
\* the rejection are what they were just before that item was examined.
C12_ActionRejectedAtStart ==
    [][(~started /\ started') =>
          /\ \A i \in DOMAIN log' :
               /\ log'[i].op = "acquire" => ~IsWebdriverActionRequest(log'[i].req)
               /\ log'[i].op = "reject" =>
                    /\ IsWebdriverActionRequest(log'[i].req)
                    /\ i = Len(log')
                    /\ log'[i].pre = (IF i = 1 THEN manager ELSE log'[i - 1].post)
                    /\ manager' = log'[i].pre
          /\ \A i \in DOMAIN out' : ~IsWebdriverActionRequest(out'[i])
      ]_vars

\* An action request is rejected at the start after one request was admitted
\* and another queued.
C12_Witness ==
    /\ Len(log) = 3 /\ log[3].op = "reject"
    /\ manager.held /\ Len(manager._wait_order) = 1
    /\ Len(out) = 1

\* Helpers of C13: what is not a webdriver request, and the requests the
\* recorded calls returned as admitted, in call order.
IsPlain(x) == x.kind \in {"plain", "item"}
IsSimple(x) == IsWebdriverRequest(x) /\ ~IsWebdriverActionRequest(x)
AdmittedOf(l) == LET adm == SelectSeq(l, Admits) IN [i \in DOMAIN adm |-> adm[i].ret]

\* C13: process_start_requests forwards its input with the action requests
\* rejected and the queued requests removed: every other item, also one that
\* follows a rejected action request, is forwarded unchanged and in order,
\* and every webdriver request that is not an action is put to acquire.
C13_StartBatchForwarded ==
    [][(~started /\ started') =>
          /\ SelectSeq(out', IsPlain) = SelectSeq(input', IsPlain)
          /\ SelectSeq(out', IsWebdriverRequest) = AdmittedOf(log')
          /\ Len(SelectSeq(input', IsSimple))
                 = Len(SelectSeq(log', LAMBDA c : c.op = "acquire"))
      ]_vars

\* C14: what a router extension point hands to the pipeline is a request or
\* an item, never the WAITING marker; in particular the sequence that
\* process_spider_exception returns holds the next request to dispatch, also
\* when nothing is queued at the time of the failure.
C14_NoMarkerEmitted ==
    \A i \in DOMAIN out : out[i] # WAITING /\ (IsRequest(out[i]) \/ out[i] = Item)

\* C15: _download_request ends by returning a response for its request,
\* success or failure, and never by raising: once its finally has run, the
\* response for the request it downloaded is with the pipeline.
C15_AlwaysAResponse ==
    \A c \in Calls :
        (c.by = "dispatcher" /\ c.op = "release")
            => \E r \in responses : r.request = c.req

\* C16: the request that acquire_next promotes is re-emitted by the router
\* flagged dont_filter and otherwise unchanged, from process_spider_output
\* and from process_spider_exception alike.
C16_ReemittedBypassesFilter ==
    \A c \in Calls :
        (c.by = "router" /\ c.op = "acquire_next" /\ Admits(c))
            => \E i \in DOMAIN out : out[i] = ReplaceDontFilter(c.ret)

\* C17: the lock of a webdriver request is kept while its response is parsed:
\* as long as the response waits for or is in its callback the lock is HELD
\* by the request's identity, and the router's release for the response finds
\* that identity holding the lock; the end of the download does not free it.
C17_LockKeptWhileParsing ==
    /\ \A r \in responses :
         IsWebdriverRequest(r.request)
             => manager.held /\ manager.held_by = r.request.url
    /\ \A c \in Calls :
         (c.by = "router" /\ c.op = "release")
             => c.pre.held /\ c.pre.held_by = c.id

\* C18: the step in which the alarm handler runs changes the lock (to FREE,
\* whoever held it) and the handle (to None) and nothing else of the
\* manager: the order of the waiters and the requests stored for them stay,
\* no waiter is promoted and nothing is handed to the pipeline.
C18_HangRecoveryFrame ==
    [][AlarmFires =>
          /\ manager' = [manager EXCEPT !.held = FALSE, !.held_by = NoId,
                                        !._webdriver = FALSE]
          /\ \A i \in DOMAIN log' : log'[i].op = "release"
          /\ out' = <<>> /\ responses' = responses /\ seen' = seen
      ]_vars

\* The alarm handler has just freed a held lock with two identities waiting.
C18_Witness ==
    /\ Len(log) = 1 /\ log[1].by = "alarm"
    /\ log[1].pre.held /\ Free(manager)
    /\ Len(manager._wait_order) >= 2
    /\ inflight # {}

\* Helpers of C19: the timer is pending only while a get is in flight, and
\* when it fires the lock is not held by a request that has no get in flight.
ArmedImpliesInFlight == alarm => inflight # {}
FiresForOperationInFlight ==
    AlarmFires => /\ inflight # {}
                  /\ manager.held => \E r \in inflight : r.url = manager.held_by

\* C19: the hang timer is armed only around a resource operation: an armed
\* timer implies a get in flight, every completion of a download disarms it,
\* and it never fires for an operation that has returned or against a lock
\* held by another, later request.
C19_TimerOnlyAroundOperation ==
    []ArmedImpliesInFlight /\ [][FiresForOperationInFlight]_vars

\* Helpers of C20: s is an initial part of t; the response a step consumed
\* and the request a step took from the scheduler were not webdriver ones.
IsPrefix(s, t) == Len(s) <= Len(t) /\ \A i \in DOMAIN s : s[i] = t[i]
PlainResponseConsumed ==
    \E r \in responses : responses' = responses \ {r} /\ ~IsWebdriverRequest(r.request)
PlainRequestDownloaded ==
    \E q \in scheduler :
        /\ scheduler' = scheduler \ {q} /\ ~IsWebdriverRequest(q)
        /\ responses' = responses \cup {Response(q, FALSE)}

\* C20: what is not a webdriver request bypasses the manager. The router
\* makes manager calls for webdriver requests only and forwards the other
\* items unchanged and in order; handling the response of a plain request
\* makes no release and no acquire_next; downloading a plain request makes
\* no manager call at all and leaves the manager as it was.
C20_PlainBypassesManager ==
    [][/\ \A i \in DOMAIN log' :
            log'[i].op \in {"acquire", "reject"} => IsWebdriverRequest(log'[i].req)
       /\ IsPrefix(SelectSeq(out', IsPlain), SelectSeq(input', IsPlain))
       /\ (\A i \in DOMAIN log' : log'[i].op # "reject")
              => SelectSeq(out', IsPlain) = SelectSeq(input', IsPlain)
       /\ (started /\ PlainResponseConsumed) =>
              /\ \A i \in DOMAIN log' : log'[i].op = "acquire"
              /\ Len(log') = Len(SelectSeq(input', IsWebdriverRequest))
              /\ (log' = <<>>) => manager' = manager
       /\ (scheduler' # scheduler /\ \E q \in scheduler \ scheduler' : IsPlain(q))
              => PlainRequestDownloaded /\ manager' = manager /\ log' = <<>>
      ]_vars

\* process_spider_output has just forwarded an item for the response of a
\* plain request while a webdriver request holds the lock and others wait.
C20_Witness ==
    /\ input = <<Item>> /\ out = <<Item>> /\ log = <<>>
    /\ manager.held /\ manager._wait_order # <<>>

====
